---- MODULE Spec2Model ----
(***************************************************************************)
(* A model of pfxsigner: the processor package (certificate registry,      *)
(* signing pipeline, statistics, worker loop) and the batch front end      *)
(* (cli.go) that drives it.                                                *)
(*                                                                         *)
(* Strings are sequences of tokens.  A token is "|" (the field separator), *)
(* " " (white space) or a name: a non-empty run of other characters.       *)
(***************************************************************************)
EXTENDS Integers, Sequences, FiniteSets, TLC

\* ------------------------------------------------------------------ bounds
\* The largest value of the -workers flag that is explored.
MaxWorkers == 2
\* The largest number of lines (or jobs) an input stream holds.
MaxLines == 3
\* cap(jobQ): make(chan processor.Job, 1000) in cli.go, scaled down so that a
\* full queue is reached.
QueueCap == 2
\* The largest number of LoadPFX calls a caller of the package makes.
MaxLoads == 2
\* The longest colour string parsed.
MaxColorLen == 7
\* The interval of the progress log: 1000 in processor.go, scaled down so
\* that multiples of it are reached.
LogEvery == 2

\* ------------------------------------------------------------------ strings
Sep == "|"
Space == " "

\* []byte values: Go tells a nil slice from an empty one, len() does not.
NilBytes == [isNil |-> TRUE, b |-> <<>>]
Bytes(s) == [isNil |-> FALSE, b |-> s]
len(x) == Len(x.b)

RECURSIVE TrimLeft(_)
TrimLeft(s) ==
  IF s # <<>> /\ Head(s) = Space THEN TrimLeft(Tail(s)) ELSE s

RECURSIVE TrimRight(_)
TrimRight(s) ==
  IF s # <<>> /\ s[Len(s)] = Space THEN TrimRight(SubSeq(s, 1, Len(s) - 1)) ELSE s

\* strings.TrimSpace
TrimSpace(s) == TrimRight(TrimLeft(s))

\* The position of the first separator of s, 0 when it has none.
IndexSep(s) ==
  IF \E i \in 1..Len(s) : s[i] = Sep
    THEN CHOOSE i \in 1..Len(s) : s[i] = Sep /\ \A k \in 1..(i - 1) : s[k] # Sep
    ELSE 0

\* strings.Split(s, "|"): the fields between the separators, one more than
\* there are separators (a single empty field for the empty string).
RECURSIVE Split(_)
Split(s) ==
  IF IndexSep(s) = 0
    THEN <<s>>
    ELSE <<SubSeq(s, 1, IndexSep(s) - 1)>> \o Split(SubSeq(s, IndexSep(s) + 1, Len(s)))

\* ---------------------------------------------------------- the file system
\* What os.Open(path) of an input finds.  A document is what the engine sees
\* in a byte stream: whether it parses as a PDF, whether it is encrypted, and
\* with which password.
NoDoc == [pdf |-> FALSE, encrypted |-> FALSE, pw |-> <<>>]
PlainDoc == [pdf |-> TRUE, encrypted |-> FALSE, pw |-> <<>>]
EncDoc(pw) == [pdf |-> TRUE, encrypted |-> TRUE, pw |-> pw]

InputFile(path) ==
  CASE path = <<"in.pdf">> -> [exists |-> TRUE, doc |-> PlainDoc]
    [] path = <<"enc.pdf">> -> [exists |-> TRUE, doc |-> EncDoc(<<"old">>)]
    [] OTHER -> [exists |-> FALSE, doc |-> NoDoc]

\* Whether os.Open(path) succeeds: the file is there and the system call
\* does not fail.
Open(path, fault) == InputFile(path).exists /\ fault # "os.Open"

\* Whether ioutil.WriteFile(path, out, 0644) succeeds.
WriteFile(path, fault) == fault # "ioutil.WriteFile"

\* What ioutil.ReadFile(path) and pkcs12.DecodeChain find in an archive.
Archive(path) ==
  CASE path = <<"a.pfx">> ->
         [readable |-> TRUE, pkcs12 |-> TRUE, password |-> "pa", rsa |-> TRUE, id |-> "A"]
    [] path = <<"b.pfx">> ->
         [readable |-> TRUE, pkcs12 |-> TRUE, password |-> "pb", rsa |-> TRUE, id |-> "B"]
    [] path = <<"ec.pfx">> ->
         [readable |-> TRUE, pkcs12 |-> TRUE, password |-> "pa", rsa |-> FALSE, id |-> "E"]
    [] path = <<"junk.pfx">> ->
         [readable |-> TRUE, pkcs12 |-> FALSE, password |-> "", rsa |-> FALSE, id |-> ""]
    [] OTHER ->
         [readable |-> FALSE, pkcs12 |-> FALSE, password |-> "", rsa |-> FALSE, id |-> ""]

\* ------------------------------------------------------------- the registry
\* type Certificate
Certificate(id) == [PrivKey |-> <<"key", id>>, Cert |-> <<"x509", id>>]

\* p.certs[name] = c
MapPut(m, k, v) == [x \in DOMAIN m \cup {k} |-> IF x = k THEN v ELSE m[x]]

\* New(): certs: make(map[string]*Certificate)
EmptyCerts == [x \in {} |-> Certificate("")]

NoErr == "nil"
ErrAlreadyLoaded == "the name is already loaded"
ErrReadFile == "ioutil.ReadFile error"

\* LoadPFX without the check of line 214: the name is registered again.
LoadPFXOverwrites(cs, name, path, password) ==
  IF ~Archive(path).readable
    THEN [certs |-> cs, err |-> ErrReadFile, end |-> "return"]
  ELSE IF ~Archive(path).pkcs12 \/ Archive(path).password # password
    THEN [certs |-> cs, err |-> NoErr, end |-> "fatal"]
  ELSE IF ~Archive(path).rsa
    THEN [certs |-> cs, err |-> NoErr, end |-> "panic"]
  ELSE [certs |-> MapPut(cs, name, Certificate(Archive(path).id)),
        err |-> NoErr, end |-> "return"]

\* LoadPFX(name, path, password): the registry after the call, the error it
\* returns, and how the call ends: "return", "fatal" (log.Fatalf ends the
\* process) or "panic" (the type assertion priv.(*rsa.PrivateKey) fails).
LoadPFX(cs, name, path, password) ==
  IF name \in DOMAIN cs
    THEN [certs |-> cs, err |-> ErrAlreadyLoaded, end |-> "return"]
  ELSE IF ~Archive(path).readable
    THEN [certs |-> cs, err |-> ErrReadFile, end |-> "return"]
  ELSE IF ~Archive(path).pkcs12 \/ Archive(path).password # password
    THEN [certs |-> cs, err |-> NoErr, end |-> "fatal"]
  ELSE IF ~Archive(path).rsa
    THEN [certs |-> cs, err |-> NoErr, end |-> "panic"]
  ELSE [certs |-> MapPut(cs, name, Certificate(Archive(path).id)),
        err |-> NoErr, end |-> "return"]

\* ------------------------------------------------------ the signing pipeline
ErrUnknownCert == "unknown certificate"
ErrOpen == "error opening PDF"
ErrLock == "error locking PDF with password"
ErrReopen == "error re-opening PDF after locking"
ErrReread == "error re-reading PDF after locking"
ErrSign == "error signing PDF after locking"
\* lockPDF's own error for an encrypted input; ProcessDoc logs it.
ErrAlreadyProtected == "PDF is already password protected"
ErrEngine == "engine error"

\* The calls of the document engine that may fail whatever the document is;
\* a call of ProcessDoc meets at most one of them.
Faults ==
  {"none", "IsEncrypted", "GetNumPages", "GetPage", "AddPage", "Write",
   "NewPdfReader", "Decrypt", "NewPdfAppender", "NewAdobePKCS7Detached",
   "Initialize", "NewSignatureField", "Sign", "SignNext", "ap.Write"}

\* The faults tried in the worker loop: of the system calls of Listen and,
\* of the engine, one that ProcessDoc returns as an error and the one that
\* makes it panic.
WorkerFaults == {"none", "os.Open", "Sign", "NewSignatureField", "ioutil.WriteFile"}

\* A reader: the stream it was opened on, and the document found there.
Reader(from, doc) == [from |-> from, doc |-> doc, decrypted |-> FALSE]

\* lockPDF, lines 247-281: the encrypted copy is built page by page and
\* written to a buffer.
Rebuild(password, fault) ==
  IF fault = "GetNumPages"
    THEN [err |-> ErrEngine, bytes |-> NoDoc,
          calls |-> <<"NewPdfWriter", "IsEncrypted", "Encrypt", "GetNumPages">>]
  ELSE IF fault = "GetPage"
    THEN [err |-> ErrEngine, bytes |-> NoDoc,
          calls |-> <<"NewPdfWriter", "IsEncrypted", "Encrypt", "GetNumPages", "GetPage">>]
  ELSE IF fault = "AddPage"
    THEN [err |-> ErrEngine, bytes |-> NoDoc,
          calls |-> <<"NewPdfWriter", "IsEncrypted", "Encrypt", "GetNumPages", "GetPage",
                      "AddPage">>]
  ELSE IF fault = "Write"
    THEN [err |-> ErrEngine, bytes |-> NoDoc,
          calls |-> <<"NewPdfWriter", "IsEncrypted", "Encrypt", "GetNumPages", "GetPage",
                      "AddPage", "Write">>]
  ELSE [err |-> NoErr, bytes |-> EncDoc(password.b),
        calls |-> <<"NewPdfWriter", "IsEncrypted", "Encrypt", "GetNumPages", "GetPage",
                    "AddPage", "Write">>]

\* lockPDF without the rejection of an encrypted input (lines 243-245).
lockPDFAcceptsEncrypted(rd, password, fault) ==
  IF fault = "IsEncrypted"
    THEN [err |-> ErrEngine, bytes |-> NoDoc, calls |-> <<"NewPdfWriter", "IsEncrypted">>]
  ELSE Rebuild(password, fault)

\* lockPDF(rd, password): the engine calls made, in order, the error
\* returned, and the bytes of the encrypted copy.
lockPDF(rd, password, fault) ==
  IF fault = "IsEncrypted"
    THEN [err |-> ErrEngine, bytes |-> NoDoc, calls |-> <<"NewPdfWriter", "IsEncrypted">>]
  ELSE IF rd.doc.encrypted
    THEN [err |-> ErrAlreadyProtected, bytes |-> NoDoc,
          calls |-> <<"NewPdfWriter", "IsEncrypted">>]
  ELSE Rebuild(password, fault)

\* signPDF(cert, pr, rd): the appender, which holds the reader it was made on
\* and the key the signature is bound to.
\* It is given as the engine calls it makes, in order, and the error it
\* returns.  The error of annotator.NewSignatureField is not looked at: the
\* field it returns with an error is nil, and field.T panics.
ErrNilField == "panic: nil pointer dereference"

\* signPDF, lines 318-336: the calls of the loops over the coordinate blocks
\* and the pages of each, when none fails.
RECURSIVE FieldCalls(_)
FieldCalls(coords) ==
  IF coords = <<>> THEN <<>>
  ELSE <<"NewSignatureField">> \o [i \in 1..Len(Head(coords)) |-> "Sign"]
         \o FieldCalls(Tail(coords))

\* The position in calls of the n-th call of name, 0 when there is none.
RECURSIVE NthCall(_, _, _, _)
NthCall(calls, name, n, from) ==
  IF from > Len(calls) THEN 0
  ELSE IF calls[from] # name THEN NthCall(calls, name, n, from + 1)
  ELSE IF n = 1 THEN from
  ELSE NthCall(calls, name, n - 1, from + 1)

\* Where the loops stop: at the first NewSignatureField or the first or the
\* second Sign, as the fault says; 0 when they run to the end.
FailPos(calls, fault) ==
  IF fault = "NewSignatureField" THEN NthCall(calls, "NewSignatureField", 1, 1)
  ELSE IF fault = "Sign" THEN NthCall(calls, "Sign", 1, 1)
  ELSE IF fault = "SignNext" THEN NthCall(calls, "Sign", 2, 1)
  ELSE 0

SignLoops(calls, stop) ==
  IF stop = 0 THEN [err |-> NoErr, calls |-> calls]
  ELSE [err |-> IF calls[stop] = "Sign" THEN ErrEngine ELSE ErrNilField,
        calls |-> SubSeq(calls, 1, stop)]

Prepended(pre, r) == [err |-> r.err, calls |-> pre \o r.calls]

signPDF(cert, pr, rd, fault) ==
  IF fault = "NewPdfAppender"
    THEN [err |-> ErrEngine, calls |-> <<"NewPdfAppender">>]
  ELSE IF fault = "NewAdobePKCS7Detached"
    THEN [err |-> ErrEngine, calls |-> <<"NewPdfAppender", "NewAdobePKCS7Detached">>]
  ELSE IF fault = "Initialize"
    THEN [err |-> ErrEngine,
          calls |-> <<"NewPdfAppender", "NewAdobePKCS7Detached", "Initialize">>]
  ELSE Prepended(<<"NewPdfAppender", "NewAdobePKCS7Detached", "Initialize">>,
                 SignLoops(FieldCalls(pr.Coords),
                           FailPos(FieldCalls(pr.Coords), fault)))

\* The result of ProcessDoc: the error and the bytes returned, the line
\* logged, the engine calls made in order, and the reader given to signPDF.
Result(err, out, logged, calls, rd) ==
  [err |-> err, out |-> out, logged |-> logged, calls |-> calls, signed |-> rd]

NoBytes == [from |-> "nil", doc |-> NoDoc, key |-> <<>>]
\* out.Bytes() after ap.Write(out) failed: what was written until then of
\* the document signed with the key of cert.
PartBytes(cert) == [from |-> "partial", doc |-> NoDoc, key |-> cert.PrivKey]
NoReader == [from |-> "none", doc |-> NoDoc, decrypted |-> FALSE]

\* The lock stage entered for every password that is not nil.
WantsLockUnlessNil(password) == ~password.isNil

\* The condition of the lock stage: if len(password) > 0.
WantsLock(password) == len(password) > 0

\* The stages of ProcessDoc after the lookup and the first NewPdfReader.
\* rd is the reader on the input, cert the certificate found.
LockAndSign(cert, pr, password, rd, fault) ==
  LET lk == lockPDF(rd, password, fault)
      r == [Reader("locked", lk.bytes) EXCEPT !.decrypted = TRUE]
      useLock == WantsLock(password)
      rd2 == IF useLock THEN r ELSE rd
      pre == IF useLock
               THEN <<"NewPdfReader">> \o lk.calls \o <<"NewPdfReader", "Decrypt">>
               ELSE <<"NewPdfReader">>
      sg == signPDF(cert, pr, rd2, fault)
  IN  IF useLock /\ lk.err # NoErr
        THEN Result(ErrLock, NoBytes, lk.err, <<"NewPdfReader">> \o lk.calls, NoReader)
      ELSE IF useLock /\ fault = "NewPdfReader"
        THEN Result(ErrReopen, NoBytes, ErrEngine,
                    <<"NewPdfReader">> \o lk.calls \o <<"NewPdfReader">>, NoReader)
      ELSE IF useLock /\ (fault = "Decrypt" \/ lk.bytes.pw # password.b)
        THEN Result(ErrReread, NoBytes, ErrEngine, pre, NoReader)
      ELSE IF sg.err = ErrNilField
        THEN Result(ErrNilField, NoBytes, NoErr, pre \o sg.calls, rd2)
      ELSE IF sg.err # NoErr
        THEN Result(ErrSign, NoBytes, sg.err, pre \o sg.calls, rd2)
      ELSE IF fault = "ap.Write"
        THEN Result(NoErr, PartBytes(cert), NoErr, pre \o sg.calls \o <<"Write">>, rd2)
      ELSE Result(NoErr, [from |-> rd2.from, doc |-> rd2.doc, key |-> cert.PrivKey],
                  NoErr, pre \o sg.calls \o <<"Write">>, rd2)

\* ProcessDoc opening the stream before it looks the certificate up.
ProcessDocOpensFirst(cs, certName, pr, password, b, fault) ==
  IF ~b.pdf
    THEN Result(ErrOpen, NoBytes, ErrEngine, <<"NewPdfReader">>, NoReader)
  ELSE IF certName \notin DOMAIN cs
    THEN Result(ErrUnknownCert, NoBytes, NoErr, <<"NewPdfReader">>, NoReader)
  ELSE LockAndSign(cs[certName], pr, password, Reader("input", b), fault)

\* ProcessDoc(certName, pr, password, b): b is the document in the stream.
ProcessDoc(cs, certName, pr, password, b, fault) ==
  IF certName \notin DOMAIN cs
    THEN Result(ErrUnknownCert, NoBytes, NoErr, <<>>, NoReader)
  ELSE IF ~b.pdf
    THEN Result(ErrOpen, NoBytes, ErrEngine, <<"NewPdfReader">>, NoReader)
  ELSE LockAndSign(cs[certName], pr, password, Reader("input", b), fault)

\* ------------------------------------------------------------ the batch jobs
\* type Job, with the position of the job in the stream (id) beside its fields.
Job(id, cert, in, out, pw) ==
  [id |-> id, CertName |-> cert, InFile |-> in, OutFile |-> out, Password |-> pw]

NoJob == Job(0, <<>>, <<>>, <<>>, NilBytes)

\* readJobsFromStdin, one line: the fields of the line, and whether the line
\* is skipped (empty after trimming, not three fields, or an empty field).
Chunks(text) == Split(TrimSpace(text))

\* The check of line 68 without its tests for empty fields.
SkipsWrongCount(text) ==
  \/ Len(TrimSpace(text)) = 0
  \/ Len(Chunks(text)) # 3

Skips(text) ==
  \/ Len(TrimSpace(text)) = 0
  \/ Len(Chunks(text)) # 3
  \/ Len(Chunks(text)[1]) = 0
  \/ Len(Chunks(text)[2]) = 0
  \/ Len(Chunks(text)[3]) = 0

\* A line of three non-empty fields between two separators, white space
\* around the line apart.
Count(s, c) == Cardinality({i \in 1..Len(s) : s[i] = c})

ThreeFields(text) ==
  LET t == TrimSpace(text)
  IN  /\ Count(t, Sep) = 2
      /\ t[1] # Sep
      /\ t[Len(t)] # Sep
      /\ \A i \in 1..(Len(t) - 1) : ~(t[i] = Sep /\ t[i + 1] = Sep)

\* processor.Job{CertName: chunks[0], InFile: chunks[1], OutFile: chunks[2]}
LineJob(id, text) ==
  Job(id, Chunks(text)[1], Chunks(text)[2], Chunks(text)[3], NilBytes)

\* ch <- job proceeds when the buffer has room.
CanSend(q) == Len(q) < QueueCap

\* A receive that leaves the job in the queue.
RecvKeepsHead(q) == q

\* for j := range q: the queue once its head is received.
Recv(q) == Tail(q)

\* What the body of the loop of Listen does with a job after the counter is
\* pre-incremented: os.Open, ProcessDoc, ioutil.WriteFile.  stage is where it
\* left: "open", "process", "write" (the failure exits) or "ok".
Outcome(stage, opened, pd, wrote) ==
  [stage |-> stage, opened |-> opened, pd |-> pd, wrote |-> wrote]

NotCalled == Result("not called", NoBytes, NoErr, <<>>, NoReader)
NoOutcome == Outcome("none", FALSE, NotCalled, FALSE)

RunJob(cs, pr, j, fault) ==
  LET pd == ProcessDoc(cs, j.CertName, pr, j.Password, InputFile(j.InFile).doc, fault)
  IN  IF ~Open(j.InFile, fault) THEN Outcome("open", FALSE, NotCalled, FALSE)
      ELSE IF pd.err # NoErr THEN Outcome("process", TRUE, pd, FALSE)
      ELSE IF ~WriteFile(j.OutFile, fault) THEN Outcome("write", TRUE, pd, FALSE)
      ELSE Outcome("ok", TRUE, pd, TRUE)

\* type Stats (the start time is left out)
NewStats == [JobsDone |-> 0, JobsFailed |-> 0]

\* p.stats.JobsFailed++ (the pre-increment)
PreCount(st) == [st EXCEPT !.JobsFailed = @ + 1]

\* The success path without the reversal of the pre-increment.
CountDoneNoReversal(st) == [st EXCEPT !.JobsDone = @ + 1]

\* p.stats.JobsDone++; p.stats.JobsFailed--
CountDone(st) == [st EXCEPT !.JobsDone = @ + 1, !.JobsFailed = @ - 1]

\* A failure exit that leaves the loop (return in place of continue).
AfterFailureReturns == "Done"

\* Where a worker goes after a failure exit: continue.
AfterFailure == "range"

\* GetStats(): a copy of the counters, taken under the mutex.
GetStats(st) == st

\* total := p.stats.JobsDone + p.stats.JobsFailed
Total(st) == st.JobsDone + st.JobsFailed

\* if total%1000 == 0 { p.logger.Println(total) }, the interval scaled down.
Progress(log, total) == IF total % LogEvery = 0 THEN Append(log, total) ELSE log

\* ------------------------------------------------- the signature properties
\* The characters colour strings are made of: hex digits, a letter that is
\* not one, the blank and the number sign.
Chars == {"#", "0", "8", "f", "g", " "}

HexDigits == {"0", "8", "f"}

HexVal(c) == CASE c = "0" -> 0 [] c = "8" -> 8 [] c = "f" -> 15 [] OTHER -> 0

ErrScan == "fmt.Sscanf error"
ErrHexLength == "invalid colour hex length, must be 7 or 4"

\* fmt: SkipSpace, the position of the first character from pos on that is
\* not white space.
RECURSIVE SkipSpace(_, _)
SkipSpace(s, pos) ==
  IF pos <= Len(s) /\ s[pos] = " " THEN SkipSpace(s, pos + 1) ELSE pos

\* fmt: scanNumber, the position after the hex digits from pos on, limit
\* excluded.
RECURSIVE scanNumber(_, _, _)
scanNumber(s, pos, limit) ==
  IF pos < limit /\ pos <= Len(s) /\ s[pos] \in HexDigits
    THEN scanNumber(s, pos + 1, limit) ELSE pos

\* strconv.ParseUint(tok, 16, 64) of the digits s[from..to-1].
RECURSIVE ParseUint(_, _, _)
ParseUint(s, from, to) ==
  IF from >= to THEN 0 ELSE ParseUint(s, from, to - 1) * 16 + HexVal(s[to - 1])

\* fmt: one verb %<wid>x of doScanf read at pos: white space is skipped
\* before the width applies, then at least one and at most wid hex digits
\* are read.
scanUint(s, pos, wid) ==
  LET from == SkipSpace(s, pos)
      to == scanNumber(s, from, from + wid)
  IN  IF to = from THEN [ok |-> FALSE, val |-> 0, pos |-> from]
      ELSE [ok |-> TRUE, val |-> ParseUint(s, from, to), pos |-> to]

\* fmt.Sscanf(s, "#%<wid>x%<wid>x%<wid>x", &c.R, &c.G, &c.B): the channels
\* as the call leaves them, and whether it returns an error.
Scanned(s, r, g, b) ==
  IF Len(s) = 0 \/ s[1] # "#" THEN [rgb |-> <<0, 0, 0>>, err |-> ErrScan]
  ELSE IF ~r.ok THEN [rgb |-> <<0, 0, 0>>, err |-> ErrScan]
  ELSE IF ~g.ok THEN [rgb |-> <<r.val, 0, 0>>, err |-> ErrScan]
  ELSE IF ~b.ok THEN [rgb |-> <<r.val, g.val, 0>>, err |-> ErrScan]
  ELSE [rgb |-> <<r.val, g.val, b.val>>, err |-> NoErr]

ScanB(s, wid, r, g) == Scanned(s, r, g, scanUint(s, g.pos, wid))
ScanG(s, wid, r) == ScanB(s, wid, r, scanUint(s, r.pos, wid))
Sscanf(s, wid) == ScanG(s, wid, scanUint(s, 2, wid))

\* c.R *= 17 on a uint8
Double(v) == (v * 17) % 256

\* parseHexColor(s)
Doubled(c) ==
  [rgb |-> <<Double(c.rgb[1]), Double(c.rgb[2]), Double(c.rgb[3])>>, err |-> c.err]

parseHexColor(s) ==
  IF Len(s) = 7 THEN Sscanf(s, 2)
  ELSE IF Len(s) = 4 THEN Doubled(Sscanf(s, 1))
  ELSE [rgb |-> <<0, 0, 0>>, err |-> ErrHexLength]

\* A JSON blob of signature properties: whether json.Unmarshal accepts it,
\* and the three colour strings of its style.
OneBlock == <<<<1>>>>

Blob(json, font, bg, border) ==
  [len |-> 1, json |-> json, Coords |-> OneBlock,
   FontColor |-> font, BgColor |-> bg, BorderColor |-> border]

\* []byte(r.FormValue("props")) when the field is absent or empty.
EmptyBlob == [len |-> 0, json |-> FALSE, Coords |-> <<>>,
              FontColor |-> <<>>, BgColor |-> <<>>, BorderColor |-> <<>>]

ErrJSON == "error parsing JSON properties file"
ErrFontColor == "invalid fontColor"
ErrBgColor == "invalid bgColor"
ErrBorderColor == "invalid borderColor"

\* type SignProps: the coordinate blocks, each the pages it names, and the
\* colours of the style, parsed (zero until they are).
SignProps(coords, font, bg, border) ==
  [Coords |-> coords, FontColorRGBA |-> font, BgColorRGBA |-> bg,
   BorderColorRGBA |-> border]

NoColor == <<0, 0, 0>>

\* parseProps, lines 46-66, font, bg and border being what parseHexColor
\* returns for the three colours.
Validated(b, font, bg, border) ==
  IF ~b.json
    THEN [pr |-> SignProps(<<>>, NoColor, NoColor, NoColor), err |-> ErrJSON]
  ELSE IF font.err # NoErr
    THEN [pr |-> SignProps(b.Coords, font.rgb, NoColor, NoColor), err |-> ErrFontColor]
  ELSE IF bg.err # NoErr
    THEN [pr |-> SignProps(b.Coords, font.rgb, bg.rgb, NoColor), err |-> ErrBgColor]
  ELSE IF border.err # NoErr
    THEN [pr |-> SignProps(b.Coords, font.rgb, bg.rgb, border.rgb),
          err |-> ErrBorderColor]
  ELSE [pr |-> SignProps(b.Coords, font.rgb, bg.rgb, border.rgb), err |-> NoErr]

\* parseProps(b)
parseProps(b) ==
  Validated(b, parseHexColor(b.FontColor), parseHexColor(b.BgColor),
            parseHexColor(b.BorderColor))

\* ------------------------------------------------------------ the HTTP server
\* An http.ResponseWriter: the status code sent (0 while no header is
\* written) and what was written to the body, in order.
NewResponse == [code |-> 0, body |-> <<>>]

\* w.WriteHeader(code): the first call sends the status, a later one is
\* ignored.
WriteHeader(w, code) == IF w.code = 0 THEN [w EXCEPT !.code = code] ELSE w

\* w.Write(x): the header still unwritten is sent with http.StatusOK.
Write(w, x) ==
  [code |-> IF w.code = 0 THEN 200 ELSE w.code, body |-> Append(w.body, x)]

\* What is written to a body: a JSON error envelope or the bytes of a
\* document.
Envelope(message) == [kind |-> "envelope", message |-> message, out |-> NoBytes]
Document(out) == [kind |-> "document", message |-> "", out |-> out]

StatusBadRequest == 400
StatusInternalServerError == 500

\* sendErrorResponse(w, message, code, nil)
sendErrorResponse(w, message, code) == Write(WriteHeader(w, code), Envelope(message))

MsgRequest == "Error reading JSON request"
MsgFile == "Invalid file in the file field."

\* r.FormFile("file"): whether the field holds a file, and the document.
FormFile(present, doc) == [present |-> present, doc |-> doc]

\* handleSignDocument(w, r): the response, the properties used, and what
\* ProcessDoc returned when it was called.
\* handleSignDocument, lines 63-73: the response and the properties after
\* the props field is read, parsed being what parseProps returns for it.
ReadProps(reqB, def, parsed) ==
  IF reqB.len = 0 THEN [w |-> NewResponse, props |-> def]
  ELSE IF parsed.err # NoErr
    THEN [w |-> sendErrorResponse(NewResponse, MsgRequest, StatusBadRequest),
          props |-> parsed.pr]
  ELSE [w |-> NewResponse, props |-> parsed.pr]

\* handleSignDocument, lines 75-94: after is what ReadProps left, pd what
\* ProcessDoc returns for the file.  A panic in ProcessDoc ends the handler
\* (net/http recovers it and closes the connection).
SignFile(after, file, pd) ==
  IF ~file.present
    THEN [w |-> sendErrorResponse(after.w, MsgFile, StatusBadRequest),
          props |-> after.props, pd |-> NotCalled]
  ELSE IF pd.err = ErrNilField
    THEN [w |-> after.w, props |-> after.props, pd |-> pd]
  ELSE IF pd.err # NoErr
    THEN [w |-> sendErrorResponse(after.w, pd.err, StatusInternalServerError),
          props |-> after.props, pd |-> pd]
  ELSE [w |-> Write(after.w, Document(pd.out)), props |-> after.props, pd |-> pd]

Signed(cs, certName, after, file, fault) ==
  SignFile(after, file,
           ProcessDoc(cs, certName, after.props, Bytes(<<>>), file.doc, fault))

handleSignDocument(cs, def, certName, reqB, file, fault) ==
  Signed(cs, certName, ReadProps(reqB, def, parseProps(reqB)), file, fault)

\* ------------------------------------------------------------------- inputs
\* The names the callers load certificates under, and the names jobs and
\* requests ask for ("u" is never loaded).
LoadNames == {<<"k">>, <<"m">>}
\* The name the program run as `pfxsigner cli` loads its certificate under.
AppNames == {<<"k">>}
AppPaths == {<<"a.pfx">>, <<"ec.pfx">>, <<"junk.pfx">>, <<"gone.pfx">>}
ArchivePaths == {<<"a.pfx">>, <<"b.pfx">>, <<"ec.pfx">>, <<"junk.pfx">>, <<"gone.pfx">>}
ArchivePasswords == {"pa", "pb"}

\* The lines of standard input that are tried.
Lines ==
  { <<"k", Sep, "in.pdf", Sep, "out.pdf">>,
    <<Space, "k", Sep, "in.pdf", Sep, "out.pdf", Space>>,
    <<"u", Sep, Space, Sep, "out.pdf">>,
    <<>>,
    <<Space, Space>>,
    <<"k", Sep, "in.pdf">>,
    <<"k", Sep, "in.pdf", Sep, "out.pdf", Sep, "x">>,
    <<"k", Sep, Sep, "out.pdf">>,
    <<Space, Sep, "in.pdf", Sep, "out.pdf">>,
    <<"k", Sep, "in.pdf", Sep, Space>> }

\* The jobs a caller of Listen puts on the channel itself; unlike those of
\* readJobsFromStdin they may carry a password.
Secret == Bytes(<<"pw">>)

SentJobs(id) ==
  { Job(id, <<"k">>, <<"in.pdf">>, <<"out.pdf">>, Bytes(<<>>)),
    Job(id, <<"k">>, <<"enc.pdf">>, <<"out.pdf">>, Secret),
    Job(id, <<"u">>, <<"enc.pdf">>, <<"out.pdf">>, NilBytes) }

\* The properties files initApp may find: unreadable, not JSON, a colour of
\* five characters, and a valid one.
White == <<"#", "f", "f", "f">>
Black == <<"#", "0", "0", "0", "0", "0", "0">>
Red == <<"#", "f", "0", "0">>

PropsFiles ==
  { [readable |-> FALSE, blob |-> EmptyBlob],
    [readable |-> TRUE, blob |-> Blob(FALSE, <<>>, <<>>, <<>>)],
    [readable |-> TRUE, blob |-> Blob(TRUE, Black, <<"#", "f", "f", "0", "0">>, Red)],
    [readable |-> TRUE, blob |-> Blob(TRUE, Black, White, Red)] }

\* The properties before initApp has parsed any, and those a caller of
\* processor.New passes.
NoProps == SignProps(<<>>, NoColor, NoColor, NoColor)
DefaultProps == parseProps(Blob(TRUE, Black, White, Red)).pr

\* The props field of a request: absent, not JSON, JSON without colours, a
\* colour of five characters, a colour that is not hex, and two valid ones.
ReqBlobs ==
  { EmptyBlob,
    Blob(FALSE, <<>>, <<>>, <<>>),
    Blob(TRUE, <<>>, <<>>, <<>>),
    Blob(TRUE, Black, <<"#", "f", "f", "0", "0">>, Red),
    Blob(TRUE, Black, White, <<"#", "g", "0", "0">>),
    Blob(TRUE, Black, White, Red),
    Blob(TRUE, Red, Black, White) }

\* The file field of a request.
ReqFiles ==
  { FormFile(FALSE, NoDoc), FormFile(TRUE, NoDoc), FormFile(TRUE, PlainDoc),
    FormFile(TRUE, EncDoc(<<"old">>)) }

\* The arguments of the direct calls of ProcessDoc.
CallNames == {<<"k">>, <<"u">>}
CallPasswords == {NilBytes, Bytes(<<>>), Secret}
CallDocs == {PlainDoc, EncDoc(<<"old">>), NoDoc}
\* The coordinate blocks of the properties: none, one block of one page, and
\* a block of two pages before a block of one.
CallCoords == {<<>>, OneBlock, <<<<1, 2>>, <<1>>>>}
\* The colour strings given to parseHexColor: all those of at most
\* MaxColorLen characters.
ColorStrings == UNION {[1..n -> Chars] : n \in 0..MaxColorLen}
\* The properties a caller constructs the processor with.
CallProps == {[DefaultProps EXCEPT !.Coords = coords] : coords \in CallCoords}

\* -------------------------------------------------------------------- state
VARIABLES
  frontend,   \* "cli": the program run as `pfxsigner cli`; "server": the
              \* program run as `pfxsigner server`; "pool": a caller of Listen
              \* and GetStats; "calls": a caller of LoadPFX and ProcessDoc
              \* "props": a caller of parseProps
  proc,       \* the process: "running", "exited", "fatal" (log.Fatalf), "panic"
  mpc,        \* where the main goroutine is
  num,        \* the number of workers (the -workers flag)
  loads,      \* LoadPFX calls made so far
  certs,      \* p.certs
  props,      \* p.props
  first,      \* per name, the certificate first registered under it
  ret,        \* what the last direct call of LoadPFX or ProcessDoc returned
  stats,      \* p.stats
  jobQ,       \* the buffered channel of jobs
  closed,     \* whether close(jobQ) has run
  wg,         \* the counter of p.Wg
  wpc,        \* per worker, where it is in Listen
  cur,        \* per worker, the job j it holds
  res,        \* per worker, how the body of the loop went for j
  ppc,        \* where the producer goroutine is
  pjob,       \* the job the producer is sending
  nread,      \* lines scanned so far
  nAccepted,  \* jobs the producer accepted so far
  nValid,     \* lines scanned so far that hold three non-empty fields
  rejected,   \* the names LoadPFX refused to register a second time
  taken,      \* per job id, how many times the job was received from jobQ
  fate,       \* per job id, how its processing ended: "none", "failed", "done"
  snap,       \* the last GetStats snapshot, with the jobs in flight and the
              \* number of jobs completed when it was taken
  ticks,      \* the totals the workers printed to the progress log, in order
  fds         \* per worker, the number of input files it holds open

vars ==
  <<frontend, proc, mpc, num, loads, certs, props, first, ret, stats, jobQ, closed, wg,
    wpc, cur, res, ppc, pjob, nread, nAccepted, nValid, rejected, taken, fate, snap,
    ticks, fds>>

Workers == 1..MaxWorkers
Ids == 1..MaxLines

NoRet == [op |-> "none"]
NoSnap == [taken |-> FALSE, stats |-> NewStats, inflight |-> {}, completed |-> 0]

\* The jobs whose pre-increment has run and whose processing has not ended.
InFlight == {cur[w].id : w \in {x \in Workers : wpc[x] \in {"work", "failed", "record", "panic"}}}
Completed == {i \in Ids : fate[i] # "none"}

\* The state after processor.New, under the front end f, r being the value
\* the caller holds.
InitWith(f, r) ==
  /\ frontend = f
  /\ proc = "running"
  /\ mpc = IF f = "calls" THEN "calls" ELSE "initApp"
  /\ num \in IF f \in {"calls", "server", "props"} THEN {0} ELSE (-1)..MaxWorkers
  /\ loads = 0
  /\ certs = EmptyCerts
  /\ props \in IF f \in {"cli", "server"} THEN {NoProps}
              ELSE IF f = "calls" THEN CallProps
              ELSE {DefaultProps}
  /\ first = EmptyCerts
  /\ ret = r
  /\ stats = NewStats
  /\ jobQ = <<>>
  /\ closed = FALSE
  /\ wg = 0
  /\ wpc = [w \in Workers |-> "off"]
  /\ cur = [w \in Workers |-> NoJob]
  /\ res = [w \in Workers |-> NoOutcome]
  /\ ppc = "off"
  /\ pjob = NoJob
  /\ nread = 0
  /\ nAccepted = 0
  /\ nValid = 0
  /\ rejected = {}
  /\ taken = [i \in Ids |-> 0]
  /\ fate = [i \in Ids |-> "none"]
  /\ snap = NoSnap
  /\ ticks = <<>>
  /\ fds = [w \in Workers |-> 0]

InitOf(f) == InitWith(f, NoRet)

\* A caller of parseProps that holds the string of the font colour.
InitColor == \E s \in ColorStrings : InitWith("props", [op |-> "input", s |-> s])

Init == (\E f \in {"cli", "server", "pool", "calls"} : InitOf(f)) \/ InitColor

\* ------------------------------------------------------------------ actions
regVars == <<certs, props, first, rejected>>
poolVars == <<stats, jobQ, closed, wg, wpc, cur, res>>
prodVars == <<ppc, pjob, nread, nAccepted, nValid>>
histVars == <<taken, fate>>

\* The registry and the return value after LoadPFX(name, path, password)
\* returned r.
Loaded(name, path, r) ==
  /\ certs' = r.certs
  /\ props' = props
  /\ first' = IF name \in DOMAIN first \/ name \notin DOMAIN r.certs
                THEN first ELSE MapPut(first, name, r.certs[name])
  /\ rejected' = IF name \in DOMAIN certs /\ r.err # NoErr
                   THEN rejected \cup {name} ELSE rejected
  /\ ret' = [op |-> "LoadPFX", name |-> name, path |-> path, err |-> r.err,
             had |-> name \in DOMAIN certs]

\* initApp, lines 18-33 of init.go: the properties file is read and parsed,
\* either failure is fatal, and processor.New keeps the properties.
InitAppProps ==
  /\ proc = "running" /\ frontend \in {"cli", "server"} /\ mpc = "initApp"
  /\ \E f \in PropsFiles :
       LET r == parseProps(f.blob)
       IN  IF f.readable /\ r.err = NoErr
             THEN /\ props' = r.pr
                  /\ mpc' = "LoadPFX"
                  /\ proc' = proc
             ELSE /\ proc' = "fatal"
                  /\ UNCHANGED <<props, mpc>>
  /\ UNCHANGED <<frontend, num, loads, certs, first, rejected, ret, poolVars, prodVars,
                 histVars, snap, ticks, fds>>

\* initApp going on to the command whatever LoadPFX returns.
InitAppLoadIgnoresError ==
  /\ proc = "running" /\ frontend \in {"cli", "server"} /\ mpc = "LoadPFX"
  /\ \E name \in AppNames, path \in AppPaths, password \in ArchivePasswords :
       LET r == LoadPFX(certs, name, path, password)
       IN  /\ Loaded(name, path, r)
           /\ loads' = loads + 1
           /\ proc' = IF r.end = "return" THEN "running" ELSE r.end
           /\ mpc' = IF r.end = "return"
                      THEN (IF frontend = "cli" THEN "initCLI" ELSE "initServer")
                      ELSE mpc
  /\ UNCHANGED <<frontend, num, poolVars, prodVars, histVars, snap, ticks, fds>>

\* initApp: proc.LoadPFX(...); an error is fatal, and so is a decode failure
\* inside LoadPFX.
InitAppLoad ==
  /\ proc = "running" /\ frontend \in {"cli", "server"} /\ mpc = "LoadPFX"
  /\ \E name \in AppNames, path \in AppPaths, password \in ArchivePasswords :
       LET r == LoadPFX(certs, name, path, password)
       IN  /\ Loaded(name, path, r)
           /\ loads' = loads + 1
           /\ proc' = IF r.end = "panic" THEN "panic"
                      ELSE IF r.end = "fatal" \/ r.err # NoErr THEN "fatal"
                      ELSE "running"
           /\ mpc' = IF r.end = "return" /\ r.err = NoErr
                      THEN (IF frontend = "cli" THEN "initCLI" ELSE "initServer")
                      ELSE mpc
  /\ UNCHANGED <<frontend, num, poolVars, prodVars, histVars, snap, ticks, fds>>

\* initCLI, lines 17-34 of cli.go: Wg.Add(num) (a negative counter panics),
\* num goroutines running Listen, and the goroutine reading standard input.
InitCLI ==
  /\ proc = "running" /\ frontend = "cli" /\ mpc = "initCLI"
  /\ IF num < 0
       THEN /\ proc' = "panic"
            /\ UNCHANGED <<mpc, wg, wpc, ppc>>
       ELSE /\ wg' = wg + num
            /\ wpc' = [w \in Workers |-> IF w <= num THEN "range" ELSE "off"]
            /\ ppc' = "scan"
            /\ mpc' = "Wait"
            /\ proc' = proc
  /\ UNCHANGED <<frontend, num, loads, regVars, ret, stats, jobQ, closed, cur, res,
                 pjob, nread, nAccepted, nValid, histVars, snap, ticks, fds>>

\* proc.Wg.Wait() returns when the counter is zero.
WgWait ==
  /\ proc = "running" /\ frontend = "cli" /\ mpc = "Wait"
  /\ wg = 0
  /\ mpc' = "GetStats"
  /\ UNCHANGED <<frontend, proc, num, loads, regVars, ret, poolVars, prodVars,
                 histVars, snap, ticks, fds>>

\* A call of GetStats: the copy it returns, with what was in flight then.
Snapshot ==
  [taken |-> TRUE, stats |-> GetStats(stats), inflight |-> InFlight,
   completed |-> Cardinality(Completed)]

\* s = proc.GetStats() in initCLI
MainGetStats ==
  /\ proc = "running" /\ frontend = "cli" /\ mpc = "GetStats"
  /\ snap' = Snapshot
  /\ mpc' = "report"
  /\ UNCHANGED <<frontend, proc, num, loads, regVars, ret, poolVars, prodVars, histVars,
                 ticks, fds>>

\* initCLI logs the summary and returns; main returns and the process ends.
MainReturn ==
  /\ proc = "running" /\ frontend = "cli" /\ mpc = "report"
  /\ proc' = "exited"
  /\ UNCHANGED <<frontend, mpc, num, loads, regVars, ret, poolVars, prodVars,
                 histVars, snap, ticks, fds>>

\* readJobsFromStdin: s.Scan() returns a line; the line is skipped or made
\* into a job to send.
Scan ==
  /\ proc = "running" /\ ppc = "scan"
  /\ nread < MaxLines
  /\ \E text \in Lines :
       /\ nread' = nread + 1
       /\ nValid' = IF ThreeFields(text) THEN nValid + 1 ELSE nValid
       /\ IF Skips(text)
            THEN UNCHANGED <<ppc, pjob, nAccepted>>
            ELSE /\ nAccepted' = nAccepted + 1
                 /\ pjob' = LineJob(nAccepted + 1, text)
                 /\ ppc' = "send"
  /\ UNCHANGED <<frontend, proc, mpc, num, loads, regVars, ret, poolVars, histVars, snap,
                 ticks, fds>>

\* ch <- job
Send ==
  /\ proc = "running" /\ ppc = "send"
  /\ CanSend(jobQ)
  /\ jobQ' = Append(jobQ, pjob)
  /\ pjob' = NoJob
  /\ ppc' = IF frontend = "cli" THEN "scan" ELSE "make"
  /\ UNCHANGED <<frontend, proc, mpc, num, loads, regVars, ret, stats, closed, wg, wpc,
                 cur, res, nread, nAccepted, nValid, histVars, snap, ticks, fds>>

\* s.Scan() returns false at the end of the stream, s.Err() is nil, and the
\* goroutine closes the queue.
ScanEnd ==
  /\ proc = "running" /\ ppc = "scan"
  /\ closed' = TRUE
  /\ ppc' = "done"
  /\ UNCHANGED <<frontend, proc, mpc, num, loads, regVars, ret, stats, jobQ, wg, wpc,
                 cur, res, pjob, nread, nAccepted, nValid, histVars, snap, ticks, fds>>

\* s.Scan() returns false on a read error: log.Fatalf in the goroutine.
ScanError ==
  /\ proc = "running" /\ ppc = "scan"
  /\ proc' = "fatal"
  /\ UNCHANGED <<frontend, mpc, num, loads, regVars, ret, poolVars, prodVars,
                 histVars, snap, ticks, fds>>

\* Listen: for j := range q receives the head of the queue.
Dequeue(w) ==
  /\ proc = "running" /\ wpc[w] = "range"
  /\ jobQ # <<>>
  /\ cur' = [cur EXCEPT ![w] = Head(jobQ)]
  /\ jobQ' = Recv(jobQ)
  /\ taken' = [taken EXCEPT ![Head(jobQ).id] = @ + 1]
  /\ wpc' = [wpc EXCEPT ![w] = "count"]
  /\ UNCHANGED <<frontend, proc, mpc, num, loads, regVars, ret, stats, closed, wg, res,
                 prodVars, fate, snap, ticks, fds>>

\* A range loop that ends on an empty queue, closed or not.
LeaveLoopOnEmpty(w) ==
  /\ proc = "running" /\ wpc[w] = "range"
  /\ jobQ = <<>>
  /\ wpc' = [wpc EXCEPT ![w] = "Done"]
  /\ UNCHANGED <<frontend, proc, mpc, num, loads, regVars, ret, stats, jobQ, closed, wg,
                 cur, res, prodVars, histVars, snap, ticks, fds>>

\* Listen: the range loop ends when the queue is closed and empty.
LeaveLoop(w) ==
  /\ proc = "running" /\ wpc[w] = "range"
  /\ jobQ = <<>> /\ closed
  /\ wpc' = [wpc EXCEPT ![w] = "Done"]
  /\ UNCHANGED <<frontend, proc, mpc, num, loads, regVars, ret, stats, jobQ, closed, wg,
                 cur, res, prodVars, histVars, snap, ticks, fds>>

\* Listen: p.Wg.Done()
WgDone(w) ==
  /\ proc = "running" /\ wpc[w] = "Done"
  /\ wg' = wg - 1
  /\ wpc' = [wpc EXCEPT ![w] = "stopped"]
  /\ UNCHANGED <<frontend, proc, mpc, num, loads, regVars, ret, stats, jobQ, closed,
                 cur, res, prodVars, histVars, snap, ticks, fds>>

\* Listen returns after p.Wg.Done(): the deferred f.Close() calls of all
\* the iterations run now.
RunDeferred(w) ==
  /\ proc = "running" /\ wpc[w] = "stopped"
  /\ fds[w] > 0
  /\ fds' = [fds EXCEPT ![w] = 0]
  /\ UNCHANGED <<frontend, proc, mpc, num, loads, regVars, ret, poolVars, prodVars,
                 histVars, snap, ticks>>

\* Listen, lines 115-117: the first critical section.
PreIncrement(w) ==
  /\ proc = "running" /\ wpc[w] = "count"
  /\ stats' = PreCount(stats)
  /\ wpc' = [wpc EXCEPT ![w] = "work"]
  /\ UNCHANGED <<frontend, proc, mpc, num, loads, regVars, ret, jobQ, closed, wg, cur,
                 res, prodVars, histVars, snap, ticks, fds>>

\* Listen, lines 119-137: open the input, ProcessDoc, write the output.  A
\* panic in ProcessDoc is not recovered in the goroutine: the process dies.
\* defer f.Close() puts the close off until Listen returns: the file stays
\* open.
Work(w) ==
  /\ proc = "running" /\ wpc[w] = "work"
  /\ \E fault \in WorkerFaults :
       LET o == RunJob(certs, props, cur[w], fault)
       IN  /\ res' = [res EXCEPT ![w] = o]
           /\ wpc' = [wpc EXCEPT ![w] = IF o.pd.err = ErrNilField THEN "panic"
                                        ELSE IF o.stage = "ok" THEN "record"
                                        ELSE "failed"]
           /\ proc' = IF o.pd.err = ErrNilField THEN "panic" ELSE proc
           /\ fds' = [fds EXCEPT ![w] = IF o.opened THEN @ + 1 ELSE @]
  /\ UNCHANGED <<frontend, mpc, num, loads, regVars, ret, stats, jobQ, closed, wg,
                 cur, prodVars, histVars, snap, ticks>>

\* Listen: a failure exit logs the error and continues with the next job.
Continue(w) ==
  /\ proc = "running" /\ wpc[w] = "failed"
  /\ fate' = [fate EXCEPT ![cur[w].id] = "failed"]
  /\ wpc' = [wpc EXCEPT ![w] = AfterFailure]
  /\ cur' = [cur EXCEPT ![w] = NoJob]
  /\ res' = [res EXCEPT ![w] = NoOutcome]
  /\ UNCHANGED <<frontend, proc, mpc, num, loads, regVars, ret, stats, jobQ, closed, wg,
                 prodVars, taken, snap, ticks, fds>>

\* Listen, lines 140-148: the second critical section, and the progress
\* line printed for the total read in it.
Record(w) ==
  /\ proc = "running" /\ wpc[w] = "record"
  /\ stats' = CountDone(stats)
  /\ ticks' = Progress(ticks, Total(CountDone(stats)))
  /\ fate' = [fate EXCEPT ![cur[w].id] = "done"]
  /\ wpc' = [wpc EXCEPT ![w] = "range"]
  /\ cur' = [cur EXCEPT ![w] = NoJob]
  /\ res' = [res EXCEPT ![w] = NoOutcome]
  /\ UNCHANGED <<frontend, proc, mpc, num, loads, regVars, ret, jobQ, closed, wg,
                 prodVars, taken, snap, fds>>

\* --------------------------------------------- the package under its caller
\* A caller loads certificates; the error is returned to it.
CallLoadPFX ==
  /\ proc = "running" /\ frontend = "calls" /\ mpc = "calls"
  /\ loads < MaxLoads
  /\ \E name \in LoadNames, path \in ArchivePaths, password \in ArchivePasswords :
       LET r == LoadPFX(certs, name, path, password)
       IN  /\ Loaded(name, path, r)
           /\ proc' = IF r.end = "return" THEN "running" ELSE r.end
  /\ loads' = loads + 1
  /\ UNCHANGED <<frontend, mpc, num, poolVars, prodVars, histVars, snap, ticks, fds>>

\* A caller signs one document (as handleSignDocument does, with an empty
\* password).
CallProcessDoc ==
  /\ proc = "running" /\ frontend = "calls" /\ mpc = "calls"
  /\ \E name \in CallNames, password \in CallPasswords, b \in CallDocs,
        fault \in Faults :
       LET r == ProcessDoc(certs, name, props, password, b, fault)
       IN  /\ ret' = [op |-> "ProcessDoc", name |-> name, password |-> password,
                      b |-> b, known |-> name \in DOMAIN certs, r |-> r]
           /\ proc' = IF r.err = ErrNilField THEN "panic" ELSE proc
  /\ UNCHANGED <<frontend, mpc, num, loads, regVars, poolVars, prodVars,
                 histVars, snap, ticks, fds>>

\* A caller parses properties whose font colour is the string it holds, the
\* other two colours being valid (parseProps calls parseHexColor on each).
CallParseProps ==
  /\ proc = "running" /\ frontend = "props" /\ ret.op = "input"
  /\ ret' = [op |-> "parseProps", s |-> ret.s, c |-> parseHexColor(ret.s),
             r |-> parseProps(Blob(TRUE, ret.s, White, Red))]
  /\ UNCHANGED <<frontend, proc, mpc, num, loads, regVars, poolVars, prodVars,
                 histVars, snap, ticks, fds>>

\* A caller of the pool loads the certificate "k" and starts num workers on
\* a channel, as initApp and initCLI do.
CallListen ==
  /\ proc = "running" /\ frontend = "pool" /\ mpc = "initApp"
  /\ num >= 0
  /\ Loaded(<<"k">>, <<"a.pfx">>, LoadPFX(certs, <<"k">>, <<"a.pfx">>, "pa"))
  /\ loads' = loads + 1
  /\ wg' = wg + num
  /\ wpc' = [w \in Workers |-> IF w <= num THEN "range" ELSE "off"]
  /\ ppc' = "make"
  /\ mpc' = "run"
  /\ UNCHANGED <<frontend, proc, num, stats, jobQ, closed, cur, res,
                 pjob, nread, nAccepted, nValid, histVars, snap, ticks, fds>>

\* The caller makes a job to send.
MakeJob ==
  /\ proc = "running" /\ ppc = "make"
  /\ nAccepted < MaxLines
  /\ nAccepted' = nAccepted + 1
  /\ \E j \in SentJobs(nAccepted + 1) : pjob' = j
  /\ ppc' = "send"
  /\ nValid' = nValid + 1
  /\ UNCHANGED <<frontend, proc, mpc, num, loads, regVars, ret, poolVars, nread,
                 histVars, snap, ticks, fds>>

\* The caller closes the channel.
CloseQueue ==
  /\ proc = "running" /\ ppc = "make"
  /\ closed' = TRUE
  /\ ppc' = "done"
  /\ UNCHANGED <<frontend, proc, mpc, num, loads, regVars, ret, stats, jobQ, wg, wpc,
                 cur, res, pjob, nread, nAccepted, nValid, histVars, snap, ticks, fds>>

\* A caller reads the statistics while the workers run.
CallGetStats ==
  /\ proc = "running" /\ frontend = "pool" /\ mpc = "run"
  /\ snap' = Snapshot
  /\ UNCHANGED <<frontend, proc, mpc, num, loads, regVars, ret, poolVars, prodVars,
                 histVars, ticks, fds>>

\* ------------------------------------------------ the program as a server
\* initServer: srv.ListenAndServe() serves requests, or fails at once
\* (logger.Fatalf).
InitServer ==
  /\ proc = "running" /\ frontend = "server" /\ mpc = "initServer"
  /\ \/ mpc' = "serve" /\ proc' = proc
     \/ mpc' = mpc /\ proc' = "fatal"
  /\ UNCHANGED <<frontend, num, loads, regVars, ret, poolVars, prodVars, histVars, snap,
                 ticks, fds>>

\* A handler that loads the certificate of the request when the registry
\* lacks it.
HandleSignDocumentLoads ==
  /\ proc = "running" /\ frontend = "server" /\ mpc = "serve"
  /\ \E name \in CallNames, reqB \in ReqBlobs, file \in ReqFiles, fault \in Faults :
       LET r == LoadPFX(certs, name, <<"a.pfx">>, "pa")
       IN  /\ certs' = r.certs
           /\ ret' = [op |-> "handleSignDocument", name |-> name, reqB |-> reqB,
                      file |-> file, known |-> name \in DOMAIN r.certs,
                      r |-> handleSignDocument(r.certs, props, name, reqB, file, fault)]
  /\ UNCHANGED <<frontend, proc, mpc, num, loads, props, first, rejected, poolVars,
                 prodVars, histVars, snap, ticks, fds>>

\* POST /sign/{certName}
HandleSignDocument ==
  /\ proc = "running" /\ frontend = "server" /\ mpc = "serve"
  /\ \E name \in CallNames, reqB \in ReqBlobs, file \in ReqFiles, fault \in Faults :
       ret' = [op |-> "handleSignDocument", name |-> name, reqB |-> reqB, file |-> file,
               known |-> name \in DOMAIN certs,
               r |-> handleSignDocument(certs, props, name, reqB, file, fault)]
  /\ UNCHANGED <<frontend, proc, mpc, num, loads, regVars, poolVars, prodVars,
                 histVars, snap, ticks, fds>>

Next ==
  \/ InitAppProps
  \/ InitServer
  \/ HandleSignDocument
  \/ InitAppLoad
  \/ InitCLI
  \/ WgWait
  \/ MainGetStats
  \/ MainReturn
  \/ Scan
  \/ Send
  \/ ScanEnd
  \/ ScanError
  \/ \E w \in Workers : Dequeue(w)
  \/ \E w \in Workers : LeaveLoop(w)
  \/ \E w \in Workers : WgDone(w)
  \/ \E w \in Workers : RunDeferred(w)
  \/ \E w \in Workers : PreIncrement(w)
  \/ \E w \in Workers : Work(w)
  \/ \E w \in Workers : Continue(w)
  \/ \E w \in Workers : Record(w)
  \/ CallLoadPFX
  \/ CallProcessDoc
  \/ CallListen
  \/ MakeJob
  \/ CloseQueue
  \/ CallGetStats
  \/ CallParseProps

Spec == Init /\ [][Next]_vars

\* The program run as `pfxsigner cli`.
WorkerStep(w) ==
  \/ Dequeue(w)
  \/ LeaveLoop(w)
  \/ WgDone(w)
  \/ RunDeferred(w)
  \/ PreIncrement(w)
  \/ Work(w)
  \/ Continue(w)
  \/ Record(w)

NextCli ==
  \/ InitAppProps
  \/ InitAppLoad
  \/ InitCLI
  \/ WgWait
  \/ MainGetStats
  \/ MainReturn
  \/ Scan
  \/ Send
  \/ ScanEnd
  \/ ScanError
  \/ \E w \in Workers : WorkerStep(w)

SpecCli == InitOf("cli") /\ [][NextCli]_vars

\* The steps of the goroutine that reads stdin, short of a read error, and
\* those of initCLI.
ProducerStep == Scan \/ Send \/ ScanEnd
OrchestratorStep == InitCLI \/ WgWait \/ MainGetStats \/ MainReturn

\* The same under the scheduling of goroutines: none of the producer, the
\* orchestrator and the workers is put off for ever while it can take a step
\* (of the workers, not all of them are).
FairSpecCli ==
  /\ SpecCli
  /\ WF_vars(ProducerStep)
  /\ WF_vars(OrchestratorStep)
  /\ WF_vars(\E w \in Workers : WorkerStep(w))

\* The worker pool under a caller that sends jobs.
NextPool ==
  \/ CallListen
  \/ MakeJob
  \/ Send
  \/ CloseQueue
  \/ \E w \in Workers : WorkerStep(w)

SpecPool == InitOf("pool") /\ [][NextPool]_vars

\* The worker pool under a caller that also reads the statistics while the
\* workers run.
NextStats ==
  \/ NextPool
  \/ CallGetStats

SpecStats == InitOf("pool") /\ [][NextStats]_vars

\* parseProps and parseHexColor under a caller that holds a colour string.
NextColor ==
  \/ CallParseProps

SpecColor == InitColor /\ [][NextColor]_vars

\* The registry and the pipeline under a caller of LoadPFX and ProcessDoc.
NextCalls ==
  \/ CallLoadPFX
  \/ CallProcessDoc

SpecCalls == InitOf("calls") /\ [][NextCalls]_vars

\* The program run as `pfxsigner server`.
NextServer ==
  \/ InitAppProps
  \/ InitAppLoad
  \/ InitServer
  \/ HandleSignDocument

SpecServer == InitOf("server") /\ [][NextServer]_vars

\* The program under either command.
NextApp ==
  \/ NextCli
  \/ NextServer

SpecApp == (InitOf("cli") \/ InitOf("server")) /\ [][NextApp]_vars

\* The signing pipeline under both its callers: the workers of the pool and
\* the direct calls.
NextSign ==
  \/ NextPool
  \/ NextCalls

SpecSign == (InitOf("pool") \/ InitOf("calls")) /\ [][NextSign]_vars

\* ------------------------------------------------------------------- claims
Sum(st) == st.JobsDone + st.JobsFailed
Started == {w \in Workers : w <= num}
PoolDone == \A w \in Started : wpc[w] = "stopped"

\* C1 as stated: in batch mode, for every input stream and every number of
\* workers, the statistics the orchestrator reads after Wg.Wait satisfy
\* JobsDone + JobsFailed = the number of lines accepted as jobs.
C1_SumForEveryWorkerCount ==
  (frontend = "cli" /\ mpc = "report") => Sum(snap.stats) = nAccepted

\* C1 amended: the same with at least one worker configured.  The producer
\* has then finished, the sum is the number of accepted lines, and the
\* accepted lines are the lines of three non-empty fields.
C1_SumIsAcceptedLines ==
  (frontend = "cli" /\ mpc = "report" /\ num >= 1) =>
    /\ ppc = "done"
    /\ snap.stats = stats
    /\ Sum(snap.stats) = nAccepted
    /\ nAccepted = nValid

\* Two workers, three lines of which one is malformed, one job done and one
\* failed, and the orchestrator has read the statistics.
C1_Witness ==
  /\ frontend = "cli" /\ mpc = "report" /\ num = 2
  /\ nread = 3 /\ nAccepted = 2
  /\ snap.stats.JobsDone = 1 /\ snap.stats.JobsFailed = 1

\* C2: with K >= 1 workers on one channel, no job is received twice, no two
\* workers hold the same job, only received jobs are recorded, and once the
\* workers have stopped every job sent was received once and recorded once.
C2_EachJobExactlyOnce ==
  /\ \A i \in Ids : taken[i] <= 1
  /\ \A i \in Ids : fate[i] # "none" => taken[i] = 1
  /\ \A v, w \in Started :
       (v # w /\ cur[v] # NoJob /\ cur[w] # NoJob) => cur[v].id # cur[w].id
  /\ (num >= 1 /\ wpc # [w \in Workers |-> "off"] /\ PoolDone) =>
       /\ \A i \in 1..nAccepted : taken[i] = 1 /\ fate[i] # "none"
       /\ stats.JobsDone = Cardinality({i \in Ids : fate[i] = "done"})
       /\ stats.JobsFailed = Cardinality({i \in Ids : fate[i] = "failed"})

\* Two workers have stopped after three jobs, of which each worked on one at
\* least (K < M).
C2_Witness ==
  /\ frontend = "pool" /\ num = 2 /\ nAccepted = 3 /\ PoolDone
  /\ \A i \in 1..3 : taken[i] = 1

\* C3 as stated: no GetStats snapshot counts in JobsFailed a job that then
\* finishes successfully: a job that was in flight, pre-incremented, when a
\* snapshot was taken never ends done.
C3_ProvisionalCountNeverSeen ==
  \A i \in snap.inflight : fate[i] # "done"

\* C4 as stated: every GetStats snapshot satisfies JobsDone + JobsFailed =
\* the number of jobs whose processing had ended when it was taken.
C4_SnapshotCountsCompletedJobs ==
  snap.taken => Sum(snap.stats) = snap.completed

\* C5: LoadPFX under a registered name returns the already-loaded error and
\* leaves the registry as it was; every name resolves to the certificate first
\* registered under it, and that is the key a later ProcessDoc signs with.
C5_CallRejected ==
  (loads' = loads + 1 /\ ret'.op = "LoadPFX" /\ ret'.name \in DOMAIN certs) =>
    /\ ret'.err = ErrAlreadyLoaded
    /\ certs' = certs
    /\ proc' = proc

C5_FirstStays ==
  /\ DOMAIN certs = DOMAIN first
  /\ \A n \in DOMAIN first : certs[n] = first[n]
  /\ (ret.op = "ProcessDoc" /\ ret.r.err = NoErr) =>
       ret.r.out.key = first[ret.name].PrivKey

C5_DuplicateLoadRejected == [][C5_CallRejected]_vars /\ []C5_FirstStays

\* A second certificate was refused under a name, and a ProcessDoc call
\* after that signed with the first.
C5_Witness ==
  /\ ret.op = "ProcessDoc" /\ ret.name \in rejected /\ ret.r.err = NoErr
  /\ ret.r.out.key = Certificate("A").PrivKey
  /\ loads = 2

\* What a worker that ran the body of the loop for its job found.
Ran(w) == wpc[w] \in {"failed", "record"}
UnknownCert(w) == cur[w].CertName \notin DOMAIN certs

\* C6 as stated: a job or a call with an unknown certificate name fails with
\* the unknown-certificate error and the input file is never opened.
C6_UnknownCertNoOpen ==
  /\ \A w \in Workers : (Ran(w) /\ UnknownCert(w)) =>
       /\ res[w].pd.err = ErrUnknownCert
       /\ ~res[w].opened
  /\ (ret.op = "ProcessDoc" /\ ~ret.known) =>
       /\ ret.r.err = ErrUnknownCert
       /\ ret.r.calls = <<>>

\* C6 amended: ProcessDoc with an unknown name returns the unknown-certificate
\* error and no bytes and makes no call on the stream.  A worker has opened
\* the input file before that call: its job fails with the unknown-certificate
\* error, the file opened and never read, when the file can be opened, and at
\* os.Open, ProcessDoc not called, when it cannot; nothing is written.
C6_UnknownCertNoRead ==
  /\ \A w \in Workers : (Ran(w) /\ UnknownCert(w)) =>
       /\ wpc[w] = "failed"
       /\ ~res[w].wrote
       /\ IF res[w].opened
            THEN /\ res[w].stage = "process"
                 /\ res[w].opened
                 /\ res[w].pd.err = ErrUnknownCert
                 /\ res[w].pd.out = NoBytes
                 /\ res[w].pd.calls = <<>>
            ELSE /\ res[w].stage = "open"
                 /\ res[w].pd = NotCalled
  /\ (ret.op = "ProcessDoc" /\ ~ret.known) =>
       /\ ret.r.err = ErrUnknownCert
       /\ ret.r.out = NoBytes
       /\ ret.r.calls = <<>>

\* A worker opened the input of a job with an unknown certificate name.
C6_Witness ==
  \E w \in Workers :
    /\ Ran(w) /\ UnknownCert(w)
    /\ res[w].opened /\ res[w].pd.err = ErrUnknownCert

\* A password is given and the input is an encrypted PDF.
LocksEncrypted(password, doc) == len(password) > 0 /\ doc.pdf /\ doc.encrypted

JobLocksEncrypted(w) ==
  /\ Ran(w) /\ ~UnknownCert(w)
  /\ res[w].opened
  /\ LocksEncrypted(cur[w].Password, InputFile(cur[w].InFile).doc)

CallLocksEncrypted ==
  ret.op = "ProcessDoc" /\ ret.known /\ LocksEncrypted(ret.password, ret.b)

\* C7 as stated: the error returned for an encrypted input is the
\* already-protected error, which differs from the error of the other
\* failures of the lock stage.
C7_AlreadyProtectedReturned ==
  /\ ErrAlreadyProtected # ErrLock
  /\ CallLocksEncrypted => ret.r.err = ErrAlreadyProtected
  /\ \A w \in Workers : JobLocksEncrypted(w) => res[w].pd.err = ErrAlreadyProtected

\* C7 amended: the call fails with the error of every failure of the lock
\* stage, the already-protected cause being logged only, before anything is
\* encrypted, and returns no bytes; in batch mode nothing is written and the
\* job ends counted in JobsFailed and not in JobsDone.
C7_State ==
  /\ CallLocksEncrypted =>
       /\ ret.r.err = ErrLock
       /\ ret.r.out = NoBytes
       /\ ret.r.logged \in {ErrAlreadyProtected, ErrEngine}
       /\ ret.r.calls = <<"NewPdfReader", "NewPdfWriter", "IsEncrypted">>
  /\ \A w \in Workers : JobLocksEncrypted(w) =>
       /\ wpc[w] = "failed"
       /\ res[w].pd.err = ErrLock
       /\ res[w].pd.out = NoBytes
       /\ ~res[w].wrote
  /\ stats.JobsDone = Cardinality({i \in Ids : fate[i] = "done"})
  /\ stats.JobsFailed = Cardinality({i \in Ids : fate[i] = "failed"}) + Cardinality(InFlight)

C7_Step ==
  \A w \in Workers : (JobLocksEncrypted(w) /\ wpc'[w] # wpc[w]) =>
    /\ fate'[cur[w].id] = "failed"
    /\ stats' = stats

C7_LockErrorOnEncrypted == []C7_State /\ [][C7_Step]_vars

\* A worker failed a job that asks to lock an encrypted input, the cause
\* logged being that the PDF is already protected.
C7_Witness ==
  \E w \in Workers :
    /\ JobLocksEncrypted(w)
    /\ res[w].pd.logged = ErrAlreadyProtected

\* The engine calls of the lock stage.
LockCalls ==
  {"NewPdfWriter", "IsEncrypted", "Encrypt", "GetNumPages", "GetPage", "AddPage", "Decrypt"}

NoLockStage(password, b, r) ==
  len(password) = 0 =>
    /\ \A i \in 1..Len(r.calls) : r.calls[i] \notin LockCalls
    /\ Count(r.calls, "NewPdfReader") <= 1
    /\ Count(r.calls, "Write") <= 1
    /\ r.err \notin {ErrLock, ErrReopen, ErrReread}
    /\ r.err \in {NoErr, ErrSign} => r.signed = Reader("input", b)
    /\ r.err = NoErr => /\ r.out.from \in {"input", "partial"}
                        /\ r.out.from = "input" => r.out.doc = b

\* C8: with a nil or zero-length password ProcessDoc makes no call of the
\* lock stage, opens the input once, signs the reader opened on the input and
\* returns bytes made from it.
C8_EmptyPasswordSkipsLock ==
  /\ ret.op = "ProcessDoc" => NoLockStage(ret.password, ret.b, ret.r)
  /\ \A w \in Workers : (Ran(w) /\ res[w].stage # "open") =>
       NoLockStage(cur[w].Password, InputFile(cur[w].InFile).doc, res[w].pd)

\* ProcessDoc signed a document with a zero-length password that is not nil.
C8_Witness ==
  /\ ret.op = "ProcessDoc" /\ ret.password = Bytes(<<>>)
  /\ ret.r.err = NoErr /\ ret.r.signed.from = "input"

\* The number of jobs received from the queue so far.
NTaken == Cardinality({i \in Ids : taken[i] >= 1})

\* The queue never holds more than its capacity, and the accepted jobs are,
\* in the order of the stream, those received, those in the queue and the one
\* being sent.
C9_State ==
  /\ Len(jobQ) <= QueueCap
  /\ \A i \in 1..Len(jobQ) : jobQ[i].id = NTaken + i
  /\ NTaken + Len(jobQ) + (IF ppc = "send" THEN 1 ELSE 0) = nAccepted
  /\ ppc = "send" => pjob.id = nAccepted

\* A producer sending into a full queue keeps its job while the queue is
\* left alone or a worker receives from it; a send appends the job.
C9_Step ==
  /\ (ppc = "send" /\ Len(jobQ) >= QueueCap) =>
       /\ ppc' = "send" /\ pjob' = pjob
       /\ jobQ' = jobQ \/ jobQ' = Tail(jobQ)
  /\ (ppc = "send" /\ ppc' # "send") => jobQ' = Append(jobQ, pjob)

\* C9 as stated: the queue is bounded, a send into a full queue blocks, and
\* every accepted job is eventually enqueued.
C9_EveryJobEnqueued ==
  /\ []C9_State
  /\ [][C9_Step]_vars
  /\ (ppc = "send") ~> (ppc # "send")

\* C10: a failure exit leaves the counters as they are, the job counted
\* failed, and takes the worker back to the receive; a worker leaves the loop
\* only from the receive, the queue closed and empty.
C10_Step ==
  \A w \in Workers :
    /\ (wpc[w] = "failed" /\ wpc'[w] # "failed") =>
         /\ wpc'[w] = "range"
         /\ stats' = stats
         /\ fate'[cur[w].id] = "failed"
    /\ (wpc[w] # "Done" /\ wpc'[w] = "Done") =>
         /\ wpc[w] = "range"
         /\ jobQ = <<>>
         /\ closed

C10_FailedJobsCounted ==
  \A i \in Ids : fate[i] = "failed" => stats.JobsFailed >= 1

C10_WorkerSurvivesFailure == [][C10_Step]_vars /\ []C10_FailedJobsCounted

\* The one worker failed two jobs, each at os.Open, in ProcessDoc or at the
\* write, and has signed and written a third.
C10_Witness ==
  /\ frontend = "cli" /\ num = 1
  /\ fate[1] = "failed" /\ fate[2] = "failed"
  /\ wpc[1] = "record" /\ cur[1].id = 3

\* The orchestrator is past Wg.Wait: about to read the statistics, or has.
PastWait == frontend = "cli" /\ mpc \in {"GetStats", "report"}

\* The queue is closed and empty and every worker started has signalled.
ShutDown ==
  /\ closed /\ jobQ = <<>>
  /\ ppc = "done"
  /\ \A w \in Started : wpc[w] = "stopped"
  /\ wg = 0

\* C11 as stated: for any number of workers, when the orchestrator reads the
\* final statistics the queue is closed and empty and every worker has left
\* its loop and signalled the barrier.
C11_ShutDownForAnyWorkers == PastWait => ShutDown

\* No worker signals the barrier while the queue is open or holds jobs, and
\* a queue once closed and empty stays so.
C11_Step ==
  /\ \A w \in Workers : (wpc[w] # "stopped" /\ wpc'[w] = "stopped") =>
       /\ wpc[w] = "Done"
       /\ closed /\ jobQ = <<>>
       /\ wg' = wg - 1
  /\ (closed /\ jobQ = <<>>) => (closed' /\ jobQ' = <<>>)

\* C11 amended: the same with at least one worker configured.
C11_State == (PastWait /\ num >= 1) => ShutDown

C11_ShutDownOrdering == []C11_State /\ [][C11_Step]_vars

\* Two workers have signalled after at least two jobs, and the orchestrator
\* has read the statistics.
C11_Witness ==
  /\ frontend = "cli" /\ mpc = "report" /\ num = 2
  /\ nAccepted >= 2 /\ snap.taken
  /\ ShutDown

\* The load of initApp has failed: it has run and the registry lacks the
\* name it was to register.
LoadFailed ==
  /\ frontend \in {"cli", "server"}
  /\ loads >= 1
  /\ ~(AppNames \subseteq DOMAIN certs)

\* A worker, the producer or the HTTP server has started, or a job or a
\* request was processed.
Serving ==
  \/ \E w \in Workers : wpc[w] # "off"
  \/ ppc # "off"
  \/ mpc \notin {"initApp", "LoadPFX"}
  \/ ret.op = "handleSignDocument"
  \/ \E i \in Ids : taken[i] # 0

\* C12: after a failed load at startup the process has terminated and
\* nothing was started; whatever is started runs with the registry complete.
C12_FailedLoadIsFatal ==
  /\ LoadFailed => (proc \in {"fatal", "panic"} /\ ~Serving)
  /\ (frontend \in {"cli", "server"} /\ Serving) => AppNames \subseteq DOMAIN certs

\* The archive could not be read and the process has ended in log.Fatalf.
C12_Witness ==
  /\ LoadFailed /\ proc = "fatal"
  /\ ret.op = "LoadPFX" /\ ret.err = ErrReadFile

\* A request was handled; its props field could not be parsed.
Handled == ret.op = "handleSignDocument"
BadProps == ret.reqB.len > 0 /\ parseProps(ret.reqB).err # NoErr

\* The failures of the open, lock and sign stages of the pipeline.
PipelineErrors == {ErrOpen, ErrLock, ErrReopen, ErrReread, ErrSign}

\* C13 as stated: a failed request is answered with an error envelope whose
\* status is 400 for an unparsable props payload, a missing file field or an
\* unknown certificate name, and 500 only for a failure of the open, lock or
\* sign stage.
C13_StatusByCause ==
  (Handled /\ ret.r.w.code # 200) =>
    /\ ret.r.w.code \in {StatusBadRequest, StatusInternalServerError}
    /\ \E i \in 1..Len(ret.r.w.body) : ret.r.w.body[i].kind = "envelope"
    /\ (BadProps \/ ~ret.file.present \/ ~ret.known) =>
         ret.r.w.code = StatusBadRequest
    /\ ret.r.w.code = StatusInternalServerError => ret.r.pd.err \in PipelineErrors

\* C14 as stated: every request has exactly one outcome, the bytes of the
\* signed document or one error envelope, and once an envelope is sent for
\* an invalid props payload nothing more is done for the request.
C14_OneOutcome ==
  Handled =>
    /\ Len(ret.r.w.body) = 1
    /\ BadProps => ret.r.pd = NotCalled
    /\ ret.r.w.body[1].kind = "document" <=> ret.r.w.code = 200

\* The jobs made of the well-formed lines, as the n-th job of the stream.
WellFormedJobs(n) == {LineJob(n, t) : t \in {l \in Lines : ThreeFields(l)}}

\* A step that reads a line: a malformed line leaves the jobs, the queue and
\* the producer as they are, the producer scanning on; a well-formed line is
\* made into the next job of the stream, which the producer goes to send.
C15_Step ==
  (nread' = nread + 1) =>
    IF nValid' = nValid
      THEN /\ nAccepted' = nAccepted
           /\ jobQ' = jobQ /\ pjob' = pjob /\ closed' = closed
           /\ ppc' = "scan" /\ proc' = proc
      ELSE /\ nAccepted' = nAccepted + 1
           /\ pjob' \in WellFormedJobs(nAccepted')
           /\ ppc' = "send"

\* The jobs accepted are the well-formed lines read, and they stand in the
\* queue in the order of the stream.
C15_State ==
  /\ nAccepted = nValid
  /\ \A i \in 1..Len(jobQ) : jobQ[i] \in WellFormedJobs(NTaken + i)
  /\ ppc = "send" => pjob \in WellFormedJobs(NTaken + Len(jobQ) + 1)

LoadedBadArchive ==
  /\ ret.op = "LoadPFX" /\ ~ret.had
  /\ (~Archive(ret.path).readable \/ ~Archive(ret.path).pkcs12)

\* C16 as stated: the call returns an error to its caller, who goes on, and
\* registers nothing under the name.
C16_DecodeErrorReturned ==
  LoadedBadArchive =>
    /\ proc = "running"
    /\ ret.err # NoErr
    /\ ret.name \notin DOMAIN certs

\* The engine calls of a ProcessDoc that succeeds, stage after stage: Open,
\* the lock stage when a password is given, the sign stage with one field for
\* each coordinate block and one Sign for each of its pages, and Serialize.
StagesOf(password, coords) ==
  <<"NewPdfReader">>
  \o (IF len(password) > 0
        THEN <<"NewPdfWriter", "IsEncrypted", "Encrypt", "GetNumPages", "GetPage",
               "AddPage", "Write", "NewPdfReader", "Decrypt">>
        ELSE <<>>)
  \o <<"NewPdfAppender", "NewAdobePKCS7Detached", "Initialize">>
  \o FieldCalls(coords) \o <<"Write">>

IsPrefix(a, b) == Len(a) <= Len(b) /\ SubSeq(b, 1, Len(a)) = a

\* C17 as stated: ProcessDoc runs Resolve, Open, the optional Lock, Sign
\* (every page of every coordinate block) and Serialize in this order; the
\* first stage or page that fails ends the call with an error and no output
\* bytes, and nothing after it is executed.  So a call either returns an
\* error with no bytes after a prefix of the stages, or returns no error, the
\* bytes of the whole signed document, after all of them; it never panics
\* and never returns bytes that a failed stage left incomplete.
C17_StagesShortCircuit ==
  ret.op = "ProcessDoc" =>
    /\ ~ret.known => (ret.r.calls = <<>> /\ ret.r.err = ErrUnknownCert)
    /\ IsPrefix(ret.r.calls, StagesOf(ret.password, props.Coords))
    /\ ret.r.err # ErrNilField /\ proc # "panic"
    /\ ret.r.err # NoErr => ret.r.out = NoBytes
    /\ ret.r.err = NoErr =>
         /\ ret.r.calls = StagesOf(ret.password, props.Coords)
         /\ ret.r.out.from \in {"input", "locked"}

\* A colour string in one of the two notations: the number sign, then three
\* or six hex digits.
IsHexColor(s) ==
  /\ Len(s) \in {4, 7}
  /\ s[1] = "#"
  /\ \A i \in 2..Len(s) : s[i] \in HexDigits

\* The channel two hex digits stand for.
Channel(hi, lo) == 16 * HexVal(hi) + HexVal(lo)

\* The channels of a colour string in one of the two notations, the digits
\* of the short one doubled.
ChannelsOf(s) ==
  IF Len(s) = 7
    THEN <<Channel(s[2], s[3]), Channel(s[4], s[5]), Channel(s[6], s[7])>>
    ELSE <<Channel(s[2], s[2]), Channel(s[3], s[3]), Channel(s[4], s[4])>>

\* C18 as stated: parseHexColor maps "#rrggbb" and "#rgb" to three channels
\* in 0..255, "#rgb" to those of "#rrggbb" with each digit doubled (so that
\* "#ff0000" and "#f00" both give (255,0,0)); a string of any other length
\* or with content that is not hex is rejected with an error, and parseProps
\* then fails.
C18_HexColorParsed ==
  ret.op = "parseProps" =>
    /\ IsHexColor(ret.s) =>
         /\ ret.c.err = NoErr /\ ret.r.err = NoErr
         /\ \A i \in 1..3 : ret.c.rgb[i] \in 0..255
         /\ ret.c.rgb = ChannelsOf(ret.s)
         /\ ret.r.pr.FontColorRGBA = ret.c.rgb
    /\ ret.s \in {<<"#", "f", "f", "0", "0", "0", "0">>, <<"#", "f", "0", "0">>} =>
         ret.c.rgb = <<255, 0, 0>>
    /\ ~IsHexColor(ret.s) => (ret.c.err # NoErr /\ ret.r.err = ErrFontColor)

\* Batch mode has begun: initApp is done and initCLI is entered.
BatchBegun == frontend = "cli" /\ mpc = "initCLI"

\* The producer has closed the queue, every worker started has returned from
\* Listen after Wg.Done, and the orchestrator, past Wg.Wait, has read the
\* final statistics.
Reported ==
  /\ closed /\ ppc = "done"
  /\ \A w \in Started : wpc[w] = "stopped"
  /\ mpc = "report" /\ snap.taken

\* A state of batch mode before the report, the process running, has a step.
C19_NoDeadlock ==
  (frontend = "cli" /\ num >= 1 /\ proc = "running"
     /\ mpc \in {"initCLI", "Wait", "GetStats"}) => ENABLED NextCli

\* C19 as stated: in batch mode, for a finite input stream and at least one
\* worker, under fair scheduling of the producer and the workers, the
\* producer eventually closes the queue, every worker eventually stops and
\* the orchestrator eventually leaves Wg.Wait and reports the final
\* statistics; no state before that is a deadlock.
C19_BatchTerminates ==
  /\ []C19_NoDeadlock
  /\ (BatchBegun /\ num >= 1) ~> Reported

\* The number of jobs completed so far, done or failed, and the number of
\* lines of the progress log that print n.
NCompleted == Cardinality(Completed)
TickCount(n) == Cardinality({i \in 1..Len(ticks) : ticks[i] = n})

\* C20 as stated: for every positive multiple n of the interval that the
\* number of completed jobs has reached, the progress log holds exactly one
\* line for n, whatever the mix of succeeded and failed jobs and the
\* interleaving of the workers; and every line of the log is for a positive
\* multiple of the interval that the number of completed jobs has reached.
C20_ProgressTicks ==
  /\ \A n \in 1..NCompleted : n % LogEvery = 0 => TickCount(n) = 1
  /\ \A i \in 1..Len(ticks) :
       /\ ticks[i] > 0 /\ ticks[i] % LogEvery = 0
       /\ ticks[i] <= NCompleted

\* A step that writes the registry.
RegistryWritten == certs' # certs

\* C21: the registry is written only by the load of initApp, before any
\* worker, the producer or an HTTP handler has started, and nothing is
\* started by the step that writes it; once anything is started no step
\* changes the registry, so that a lookup of ProcessDoc, in a worker or in a
\* handler, never meets a write.
C21_Step ==
  /\ RegistryWritten =>
       /\ mpc = "LoadPFX" /\ ~Serving
       /\ \A w \in Workers : wpc'[w] = "off"
       /\ ppc' = "off" /\ mpc' \in {"initCLI", "initServer"}
  /\ Serving => certs' = certs

C21_RegistryWrittenAtLoad == [][C21_Step]_vars

\* Two workers are in ProcessDoc at once, on jobs that name the same
\* certificate, which the registry holds.
C21_Witness ==
  /\ frontend = "cli" /\ num = 2
  /\ wpc[1] = "work" /\ wpc[2] = "work"
  /\ cur[1].CertName = cur[2].CertName
  /\ cur[1].CertName \in DOMAIN certs

\* C22 as stated: a worker holds at most one input file open at any time,
\* none when it is about to receive its next job, whatever the exit path of
\* the job before, and none once it has signalled the barrier with Wg.Done.
C22_InputFilesClosed ==
  \A w \in Workers :
    /\ fds[w] <= 1
    /\ wpc[w] = "range" => fds[w] = 0
    /\ wpc[w] = "stopped" => fds[w] = 0
====
